---- MODULE Spec2Model ----
(***************************************************************************)
(* AdvancedMomentumRotationStrategy (src/src/strategy/                     *)
(* advanced_momentum_rotation.py) run by backtrader's Cerebro as set up in *)
(* AdvancedBacktestRunner.run_backtest: a default broker (market orders    *)
(* created on bar k are matched on bar k+1 at that bar's open, percentage  *)
(* commission, cash check on submission and on execution) and aligned      *)
(* daily data feeds.                                                       *)
(*                                                                         *)
(* Money is counted in 1/CashScale of a currency unit so that the          *)
(* commission (transaction_cost = TransactionCostPm/1000) is exact;        *)
(* prices are whole currency units; ratios (weights, returns, momentum)    *)
(* are compared by cross-multiplication, i.e. as exact reals.              *)
(***************************************************************************)
EXTENDS Integers, Sequences, FiniteSets, TLC

\* ---------------------------------------------------------------- bounds
MaxBars == 4
InitialCapital == 100
LookbackPeriod == 1
MaxShares == 45

\* ------------------------------------------------ configuration (params)
PositionSizePct == 95
StopLossPct == -10
TrailingStopPct == 5
TransactionCostPm == 1
MaterialityPct == 1
MinCashBufferPct == 5
CashScale == 1000
WeeklyDays == 7
MonthlyDays == 30

\* the symbols, in ascending order
Datas == <<"A", "B">>
Symbols == {Datas[i] : i \in DOMAIN Datas}
\* The runs explored: strategy parameters together with the price history
\* they are run on. A history has `bars` bars per symbol; `prices` are the
\* closes a symbol can take, `gaps` the calendar days between consecutive bars,
\* `datas` the order in which run_backtest adds the feeds (the order of the
\* caller's symbol list).
Params(n, m, f) ==
  [top_n_holdings |-> n, max_position_size |-> m, rebalance_freq |-> f,
   position_size |-> PositionSizePct]
Scenarios ==
  { [params |-> Params(1, 100, "daily"),
     prices |-> [A |-> {18, 19, 20}, B |-> {19, 20}], gaps |-> {1}, datas |-> Datas,
     bars |-> MaxBars],
    [params |-> Params(2, 40, "daily"),
     prices |-> [A |-> {18, 19, 20}, B |-> {19, 20}], gaps |-> {1}, datas |-> Datas,
     bars |-> MaxBars],
    [params |-> Params(1, 100, "weekly"),
     prices |-> [A |-> {18, 19, 20}, B |-> {20}], gaps |-> {1, 6}, datas |-> Datas,
     bars |-> MaxBars],
    [params |-> Params(2, 40, "monthly"),
     prices |-> [A |-> {18, 19, 20}, B |-> {20}], gaps |-> {1, 29}, datas |-> Datas,
     bars |-> MaxBars],
    [params |-> Params(1, 100, "daily"),
     prices |-> [A |-> {19, 20}, B |-> {20}], gaps |-> {1}, datas |-> <<"B", "A">>,
     bars |-> MaxBars] }
QuotesOf(prices) ==
  {q \in [Symbols -> UNION {prices[s] : s \in Symbols}] : \A s \in Symbols : q[s] \in prices[s]}

\* a close that is missing in the price table reaches the feed as NaN
NaN == -1

\* -------------------------------------------------------------- helpers
Abs(x) == IF x < 0 THEN -x ELSE x
Min(a, b) == IF a <= b THEN a ELSE b
Max(a, b) == IF a >= b THEN a ELSE b

\* a conversion to whole shares that rounds down instead of toward zero
Trunc_floor(n, d) == n \div d

\* int(n/d) of Python for d > 0: truncation toward zero
Trunc(n, d) == IF n >= 0 THEN n \div d ELSE -((-n) \div d)

RECURSIVE GCD(_, _)
GCD(a, b) == IF b = 0 THEN a ELSE GCD(b, a % b)

RECURSIVE SumOver(_, _)
SumOver(f, S) ==
  IF S = {} THEN 0
  ELSE LET x == CHOOSE y \in S : TRUE IN f[x] + SumOver(f, S \ {x})

VARIABLES
  cfg,                 \* self.params
  feed,                \* the preloaded price history: possible closes, day gaps, final
                       \* closes, and self.datas (the feeds in the order they were added)
  pc,                  \* "feed": cerebro advances the feeds; "next": strategy.next; "done"
  bar,                 \* len(data): bars delivered so far
  date,                \* data0.datetime.date(0), in days
  closes,              \* per symbol: data.close up to the current bar, newest last
  cash,                \* broker cash, in 1/CashScale
  position,            \* broker position per symbol: size, price = pnum/pden
  pending_orders,      \* self.pending_orders (= the broker's submitted queue)
  executed,            \* the fills: orders the broker completed, oldest first
  failed,              \* orders the broker refused (Margin), oldest first
  last_rebalance_date, \* <<>> for None, <<d>> otherwise
  trailing_stops,      \* self.trailing_stops: symbol -> <<>> (absent) or <<highest close seen>>
  current_positions,   \* self.current_positions: the last target weights
  portfolio_values,    \* self.portfolio_values
  trade_history,       \* self.trade_history
  rebalance_history,   \* self.rebalance_history
  results,             \* self.results, set by stop()
  rotation,            \* the MomentumRotationStrategy object of a run of the basic
                       \* strategy (momentum_rotation.py), <<>> in the other runs
  macross              \* MACrossStrategy.generate_signals: self.data and the locals of
                       \* its loop (ma_cross_strategy.py), <<>> in the other runs

vars == <<cfg, feed, pc, bar, date, closes, cash, position, pending_orders, executed, failed,
          last_rebalance_date, trailing_stops, current_positions,
          portfolio_values, trade_history, rebalance_history, results, rotation, macross>>

\* the position of a symbol's feed in self.datas
IndexOf(s) == CHOOSE i \in DOMAIN feed.datas : feed.datas[i] = s

RECURSIVE Concat(_, _)
\* concatenation of f[self.datas[i]._name], ..., in data-feed order
Concat(f, i) == IF i > Len(feed.datas) THEN <<>> ELSE f[feed.datas[i]] \o Concat(f, i + 1)

close == [s \in Symbols |-> IF closes[s] = <<>> THEN 0 ELSE closes[s][Len(closes[s])]]

FlatPosition == [size |-> 0, pnum |-> 0, pden |-> 1]

\* a broker valuing the positions at their entry price instead of the close
getvalue_at_cost ==
  cash + SumOver([s \in Symbols |->
                    position[s].size * (position[s].pnum \div position[s].pden) * CashScale],
                 Symbols)

\* broker.getvalue(): cash + sum of position.size * data.close[0]; NaN as soon
\* as one close is NaN
getvalue ==
  IF \E s \in Symbols : close[s] = NaN THEN NaN
  ELSE cash + SumOver([s \in Symbols |-> position[s].size * close[s] * CashScale], Symbols)

\* broker.getcash()
getcash == cash

\* ------------------------------------------------------------ the broker
\* Position.update(size, price) of the broker: the new position and the
\* part of the order that opens / closes exposure (signed sizes).
AvgPrice(p, size, price) ==
  LET n == p.pnum * Abs(p.size) + Abs(size) * price * p.pden
      d == p.pden * Abs(p.size + size)
      g == GCD(n, d)
  IN  [pnum |-> n \div g, pden |-> d \div g]

PositionUpdate(p, size, price) ==
  LET old == p.size
      new == old + size
  IN  IF new = 0
        THEN [pos |-> FlatPosition, opened |-> 0, closed |-> size]
      ELSE IF old = 0
        THEN [pos |-> [size |-> new, pnum |-> price, pden |-> 1], opened |-> size, closed |-> 0]
      ELSE IF (old > 0 /\ size > 0) \/ (old < 0 /\ size < 0)
        THEN [pos |-> [size |-> new] @@ AvgPrice(p, size, price), opened |-> size, closed |-> 0]
      ELSE IF (old > 0 /\ new > 0) \/ (old < 0 /\ new < 0)
        THEN [pos |-> [p EXCEPT !.size = new], opened |-> 0, closed |-> size]
      ELSE [pos |-> [size |-> new, pnum |-> price, pden |-> 1], opened |-> new, closed |-> -old]

\* comminfo.getcommission(size, price): transaction_cost * |size| * price; the
\* runner of the basic strategy sets no commission
Commission(size, price) ==
  IF rotation # <<>> THEN 0 ELSE Abs(size) * price * TransactionCostPm

\* cash after the closing and the opening part of an order (stock-like asset,
\* short sales credit cash)
CashAfterClose(c, closed, price) ==
  IF closed = 0 THEN c ELSE c - closed * price * CashScale - Commission(closed, price)
CashAfterOpen(c, opened, price) ==
  IF opened = 0 THEN c ELSE c - opened * price * CashScale - Commission(opened, price)

\* BackBroker._execute with ago = None: the pseudo-execution of check_submitted,
\* at the price the order was created with; returns the running cash and position
PseudoExecute(c, p, o) ==
  LET u == PositionUpdate(p, o.size, o.price)
  IN  [cash |-> CashAfterOpen(CashAfterClose(c, u.closed, o.price), u.opened, o.price),
       pos  |-> u.pos]

\* check_submitted: the orders, in submission order, each marked accepted or not
RECURSIVE CheckSubmitted(_, _, _)
CheckSubmitted(orders, c, pos) ==
  IF orders = <<>> THEN <<>>
  ELSE LET o == Head(orders)
           r == PseudoExecute(c, pos[o.symbol], o)
       IN  <<r.cash >= 0>> \o
           CheckSubmitted(Tail(orders), r.cash, [pos EXCEPT ![o.symbol] = r.pos])

\* BackBroker._execute with ago = 0: the real execution at `price`. The closing
\* part always executes; the opening part is dropped when it would overdraw cash.
Execute(c, p, o, price) ==
  LET u        == PositionUpdate(p, o.size, price)
      cClosed  == CashAfterClose(c, u.closed, price)
      cOpened  == CashAfterOpen(cClosed, u.opened, price)
      openedOk == cOpened >= 0
      execsize == u.closed + (IF openedOk THEN u.opened ELSE 0)
  IN  [cash     |-> IF openedOk THEN cOpened ELSE cClosed,
       pos      |-> IF execsize = 0 THEN p ELSE PositionUpdate(p, execsize, price).pos,
       execsize |-> execsize]

\* the value the broker reports with cash c, positions pos and prices px
ValueAt(c, pos, px) ==
  c + SumOver([s \in Symbols |-> pos[s].size * px[s] * CashScale], Symbols)

\* list.remove(o): without the first occurrence of o
Remove(seq, o) ==
  IF \E i \in DOMAIN seq : seq[i] = o
    THEN LET i == CHOOSE k \in DOMAIN seq : seq[k] = o /\ \A j \in 1..(k - 1) : seq[j] # o
         IN  SubSeq(seq, 1, i - 1) \o SubSeq(seq, i + 1, Len(seq))
    ELSE seq

\* a handler that forgets the orders that fail
notify_order_completed_only(pending, o, status) ==
  IF status = "Completed" THEN Remove(pending, o) ELSE pending

\* notify_order: self.pending_orders after the notification of `status` for o
notify_order(pending, o, status) ==
  IF status \in {"Submitted", "Accepted"} THEN pending ELSE Remove(pending, o)

\* broker.next(): the accepted orders are matched in order at the bar's open.
\* `out` collects the outcomes: cash, position, the fills (orders Completed)
\* and the orders that ended in Margin, each with the cash and value it met,
\* and what the notifications leave of pending_orders.
RECURSIVE BrokerNext(_, _, _, _)
BrokerNext(orders, accepted, out, bar_) ==
  IF orders = <<>> THEN out
  ELSE LET o    == Head(orders)
           px   == bar_.open[o.symbol]
           r    == Execute(out.cash, out.position[o.symbol], o, px)
           fill == [symbol |-> o.symbol, size |-> r.execsize, price |-> px,
                    origin |-> o.origin, created |-> o.date, date |-> bar_.date,
                    bar |-> bar_.bar]
           fail == [symbol |-> o.symbol, size |-> o.size, price |-> px, origin |-> o.origin,
                    created |-> o.date, date |-> bar_.date, cash |-> out.cash,
                    value |-> ValueAt(out.cash, out.position, bar_.open)]
       IN  IF Head(accepted) /\ r.execsize # 0
             THEN BrokerNext(Tail(orders), Tail(accepted),
                             [cash |-> r.cash,
                              position |-> [out.position EXCEPT ![o.symbol] = r.pos],
                              fills |-> Append(out.fills, fill), failed |-> out.failed,
                              pending |-> notify_order(notify_order(out.pending, o, "Accepted"),
                                                       o, "Completed")], bar_)
             ELSE BrokerNext(Tail(orders), Tail(accepted),
                             [out EXCEPT !.failed = Append(out.failed, fail),
                                         !.pending = notify_order(@, o, "Margin")], bar_)

NoTargets == [assets |-> <<>>, num |-> 0, den |-> 1]

\* the state after construction, for a run out of `scenarios`
InitOf(scenarios) ==
  /\ \E sc \in scenarios :
       \E last \in QuotesOf(sc.prices) :
         /\ cfg = sc.params
         /\ feed = [prices |-> sc.prices, gaps |-> sc.gaps, last |-> last, datas |-> sc.datas,
                   bars |-> sc.bars]
  /\ pc = "feed"
  /\ bar = 0
  /\ date = 0
  /\ closes = [s \in Symbols |-> <<>>]
  /\ cash = InitialCapital * CashScale
  /\ position = [s \in Symbols |-> FlatPosition]
  /\ pending_orders = <<>>
  /\ executed = <<>>
  /\ failed = <<>>
  /\ last_rebalance_date = <<>>
  /\ trailing_stops = [s \in Symbols |-> <<>>]
  /\ current_positions = NoTargets
  /\ portfolio_values = <<>>
  /\ trade_history = <<>>
  /\ rebalance_history = <<>>
  /\ results = <<>>
  /\ rotation = <<>>
  /\ macross = <<>>

Init == InitOf(Scenarios)

\* ---------------------------------------------------------- the strategy
\* a scheduler comparing with > instead of >=
DaysNeeded_strict(freq) ==
  IF freq = "daily" THEN 2 ELSE IF freq = "weekly" THEN WeeklyDays + 1 ELSE MonthlyDays + 1

\* a scheduler that is one day early for the weekly and monthly frequencies
DaysNeeded_short(freq) ==
  IF freq = "daily" THEN 1 ELSE IF freq = "weekly" THEN WeeklyDays - 1 ELSE MonthlyDays - 1

\* _should_rebalance(current_date)
DaysNeeded(freq) ==
  IF freq = "daily" THEN 1 ELSE IF freq = "weekly" THEN WeeklyDays ELSE MonthlyDays

\* a scheduler that fires on every bar
should_rebalance_always(current_date) == TRUE

should_rebalance(current_date) ==
  IF last_rebalance_date = <<>> THEN TRUE
  ELSE current_date - last_rebalance_date[1] >= DaysNeeded(cfg.rebalance_freq)

\* data.close[-lookback_period]: with exactly lookback_period bars the index
\* runs off the front of the line buffer and, the feed being preloaded, reads
\* the other end of the array: the close of the history's final bar
PastClose(s) ==
  IF Len(closes[s]) > LookbackPeriod THEN closes[s][Len(closes[s]) - LookbackPeriod]
  ELSE feed.last[s]

\* _calculate_momentum_scores, over self.datas: symbol -> <<>> (no score) or
\* <<[cur, past]>>, the momentum being cur/past - 1; min_momentum_threshold = 0.0
calculate_momentum_scores ==
  [s \in Symbols |->
     IF \A i \in DOMAIN feed.datas : feed.datas[i] # s THEN <<>>
     ELSE IF Len(closes[s]) < LookbackPeriod THEN <<>>
     ELSE IF close[s] = NaN \/ PastClose(s) = NaN THEN <<>>
     ELSE IF close[s] >= PastClose(s)
            THEN <<[cur |-> close[s], past |-> PastClose(s)]>>
            ELSE <<>>]

ScoreGreater(a, b) == a.cur * b.past > b.cur * a.past

\* _select_top_assets: sorted(..., reverse=True) is stable, so equal scores keep
\* the order of the data feeds; then the first top_n_holdings
Before(scores, s, t) ==
  \/ ScoreGreater(scores[s][1], scores[t][1])
  \/ /\ ~ScoreGreater(scores[t][1], scores[s][1])
     /\ IndexOf(s) < IndexOf(t)

\* a selector that takes the first top_n_holdings candidates without sorting
select_top_assets_unsorted(scores) ==
  LET cand    == {s \in Symbols : scores[s] # <<>>}
      rank(s) == Cardinality({t \in cand : IndexOf(t) < IndexOf(s)}) + 1
      n       == Min(cfg.top_n_holdings, Cardinality(cand))
  IN  [i \in 1..n |-> CHOOSE s \in cand : rank(s) = i]

select_top_assets(scores) ==
  LET cand    == {s \in Symbols : scores[s] # <<>>}
      rank(s) == Cardinality({t \in cand : Before(scores, t, s)}) + 1
      n       == Min(cfg.top_n_holdings, Cardinality(cand))
  IN  [i \in 1..n |-> CHOOSE s \in cand : rank(s) = i]

\* _calculate_target_positions: every selected asset gets
\* min(position_size / n, max_position_size) = num/den
\* a sizer that does not clamp to max_position_size
calculate_target_positions_unclamped(selected) ==
  IF selected = <<>> THEN NoTargets
  ELSE [assets |-> selected, num |-> cfg.position_size, den |-> 100 * Len(selected)]

\* a sizer that falls back on the first feed when nothing is selected
calculate_target_positions_fallback(selected) ==
  IF selected = <<>> THEN [assets |-> <<feed.datas[1]>>, num |-> cfg.position_size, den |-> 100]
  ELSE [assets |-> selected,
        num    |-> Min(cfg.position_size, cfg.max_position_size * Len(selected)),
        den    |-> 100 * Len(selected)]

calculate_target_positions(selected) ==
  IF selected = <<>> THEN NoTargets
  ELSE [assets |-> selected,
        num    |-> Min(cfg.position_size, cfg.max_position_size * Len(selected)),
        den    |-> 100 * Len(selected)]

InTargets(targets, s) == \E i \in DOMAIN targets.assets : targets.assets[i] = s

Order(action, s, shares, origin) ==
  [action |-> action, symbol |-> s, size |-> IF action = "buy" THEN shares ELSE -shares,
   price |-> close[s], date |-> date, origin |-> origin]

\* _execute_trades, first loop: positions held long and absent from the targets
ClosingTrades(targets) ==
  Concat([s \in Symbols |->
            IF position[s].size # 0 /\ ~InTargets(targets, s) /\ position[s].size > 0
              THEN <<Order("sell", s, position[s].size, "rebalance")>>
              ELSE <<>>], 1)

\* current_weight - target as a multiple of 1/(den * portfolio_value)
WeightDiffNum(targets, s, pv) ==
  targets.num * pv - targets.den * position[s].size * close[s] * CashScale

\* shares_to_trade = int(trade_value / current_price)
SharesToTrade(targets, s, pv) ==
  Trunc(WeightDiffNum(targets, s, pv), targets.den * close[s] * CashScale)

\* abs(weight_diff) > 0.01, false for a NaN weight
Material(targets, s, pv) ==
  pv # NaN /\ Abs(WeightDiffNum(targets, s, pv)) > MaterialityPct * (targets.den \div 100) * pv

RECURSIVE AdjustTrades(_, _, _)
\* _execute_trades, second loop, over the targets in selection order
AdjustTrades(targets, i, pv) ==
  IF i > Len(targets.assets) THEN <<>>
  ELSE LET s == targets.assets[i]
           n == SharesToTrade(targets, s, pv)
       IN  (IF Material(targets, s, pv) /\ n # 0
              THEN <<Order(IF n > 0 THEN "buy" ELSE "sell", s, Abs(n), "rebalance")>>
              ELSE <<>>) \o AdjustTrades(targets, i + 1, pv)

\* _execute_trades that sizes the targets before it closes the dropped holdings
execute_trades_adjust_first(targets) ==
  AdjustTrades(targets, 1, getvalue) \o ClosingTrades(targets)

\* _execute_trades: trades_to_execute, submitted in list order
execute_trades(targets) == ClosingTrades(targets) \o AdjustTrades(targets, 1, getvalue)

TradeRecord(o) ==
  [date |-> o.date, symbol |-> o.symbol, action |-> o.action, shares |-> Abs(o.size),
   price |-> o.price]

RECURSIVE TradeRecords(_)
TradeRecords(orders) ==
  IF orders = <<>> THEN <<>> ELSE <<TradeRecord(Head(orders))>> \o TradeRecords(Tail(orders))

\* _check_risk_controls, one data feed: the sell orders it submits
StopLossHit(s) ==
  close[s] # NaN /\ close[s] * position[s].pden * 100 <= position[s].pnum * (100 + StopLossPct)

NewTrailingStop(s) ==
  IF trailing_stops[s] = <<>> THEN close[s]
  ELSE IF close[s] = NaN \/ trailing_stops[s][1] = NaN THEN trailing_stops[s][1]
  ELSE Max(trailing_stops[s][1], close[s])

TrailingStopHit(s) ==
  /\ trailing_stops[s] # <<>>
  /\ close[s] # NaN /\ trailing_stops[s][1] # NaN
  /\ close[s] * 100 <= NewTrailingStop(s) * (100 - TrailingStopPct)

RiskOrders(s) ==
  IF position[s].size > 0
    THEN (IF StopLossHit(s) THEN <<Order("sell", s, position[s].size, "stop_loss")>> ELSE <<>>)
      \o (IF TrailingStopHit(s) THEN <<Order("sell", s, position[s].size, "trailing_stop")>>
          ELSE <<>>)
    ELSE <<>>

\* a risk check that stops after the first data feed
check_risk_controls_first_feed ==
  [orders |-> RiskOrders(feed.datas[1]),
   trailing_stops |-> [s \in Symbols |->
                         IF position[s].size > 0 /\ s = feed.datas[1] THEN <<NewTrailingStop(s)>>
                         ELSE trailing_stops[s]]]

check_risk_controls ==
  [orders |-> Concat([s \in Symbols |-> RiskOrders(s)], 1),
   trailing_stops |-> [s \in Symbols |->
                         IF position[s].size > 0 THEN <<NewTrailingStop(s)>>
                         ELSE trailing_stops[s]]]

\* a rebalance that records its date only when it submitted a trade
execute_rebalance_if_traded ==
  LET scores   == calculate_momentum_scores
      selected == select_top_assets(scores)
      targets  == calculate_target_positions(selected)
      trades   == execute_trades(targets)
  IN  [orders              |-> trades,
       trade_history       |-> trade_history \o TradeRecords(trades),
       last_rebalance_date |-> IF trades = <<>> THEN last_rebalance_date ELSE <<date>>,
       current_positions   |-> targets,
       rebalance_history   |->
         Append(rebalance_history,
                [date |-> date, selected_assets |-> selected,
                 momentum_scores |-> scores, target_positions |-> targets])]

\* _execute_rebalance keeping only the latest event
execute_rebalance_last_only ==
  LET scores   == calculate_momentum_scores
      selected == select_top_assets(scores)
      targets  == calculate_target_positions(selected)
      trades   == execute_trades(targets)
  IN  [orders              |-> trades,
       trade_history       |-> trade_history \o TradeRecords(trades),
       last_rebalance_date |-> <<date>>,
       current_positions   |-> targets,
       rebalance_history   |->
         <<[date |-> date, selected_assets |-> selected,
            momentum_scores |-> scores, target_positions |-> targets]>>]

\* _execute_rebalance: the orders it submits and the state it leaves
execute_rebalance ==
  LET scores   == calculate_momentum_scores
      selected == select_top_assets(scores)
      targets  == calculate_target_positions(selected)
      trades   == execute_trades(targets)
  IN  [orders              |-> trades,
       trade_history       |-> trade_history \o TradeRecords(trades),
       last_rebalance_date |-> <<date>>,
       current_positions   |-> targets,
       rebalance_history   |->
         Append(rebalance_history,
                [date |-> date, selected_assets |-> selected,
                 momentum_scores |-> scores, target_positions |-> targets])]

\* ---------------------------------------------------------------- actions
\* Cerebro delivers the next bar of every feed; broker.next() matches the
\* orders submitted on the previous bar; notify_order removes them from
\* pending_orders (Completed and Margin alike). Every feed opens either at its
\* previous close or at the close of the new bar.
Opens(cl) == IF pending_orders = <<>> THEN {cl} ELSE {close, cl}

NewQuotes ==
  IF bar + 1 = feed.bars THEN {feed.last} ELSE QuotesOf(feed.prices)

AdvanceBar ==
  /\ pc = "feed"
  /\ bar < feed.bars
  /\ \E gap \in (IF bar = 0 THEN {0} ELSE feed.gaps), cl \in NewQuotes :
       \E open \in Opens(cl) :
         LET accepted == CheckSubmitted(pending_orders, cash, position)
             b == BrokerNext(pending_orders, accepted,
                             [cash |-> cash, position |-> position, fills |-> executed,
                              failed |-> failed, pending |-> pending_orders],
                             [open |-> open, date |-> date + gap, bar |-> bar + 1])
         IN  /\ date' = date + gap
             /\ closes' = [s \in Symbols |-> Append(closes[s], cl[s])]
             /\ cash' = b.cash
             /\ position' = b.position
             /\ executed' = b.fills
             /\ failed' = b.failed
             /\ pending_orders' = b.pending
  /\ bar' = bar + 1
  /\ pc' = "next"
  /\ UNCHANGED <<cfg, feed, last_rebalance_date, trailing_stops, current_positions,
                 portfolio_values, trade_history, rebalance_history, results>>

Advance == AdvanceBar /\ UNCHANGED <<rotation, macross>>

\* a strategy that goes on whatever is pending
has_pending_never == FALSE

\* `if self.pending_orders: return`
has_pending == pending_orders # <<>>

\* AdvancedMomentumRotationStrategy.next
next ==
  /\ pc = "next"
  /\ portfolio_values' =
       Append(portfolio_values, [date |-> date, value |-> getvalue, cash |-> getcash])
  /\ IF has_pending
       THEN UNCHANGED <<pending_orders, trailing_stops, last_rebalance_date,
                        current_positions, trade_history, rebalance_history>>
       ELSE
         LET risk == check_risk_controls
             reb  == execute_rebalance
         IN  /\ trailing_stops' = risk.trailing_stops
             /\ IF should_rebalance(date)
                  THEN /\ pending_orders' = risk.orders \o reb.orders
                       /\ trade_history' = reb.trade_history
                       /\ last_rebalance_date' = reb.last_rebalance_date
                       /\ current_positions' = reb.current_positions
                       /\ rebalance_history' = reb.rebalance_history
                  ELSE /\ pending_orders' = risk.orders
                       /\ UNCHANGED <<trade_history, last_rebalance_date,
                                      current_positions, rebalance_history>>
  /\ pc' = "feed"
  /\ UNCHANGED <<cfg, feed, bar, date, closes, cash, position, executed, failed, results,
                 rotation, macross>>

\* df_portfolio['returns'] = value.pct_change(): entry i, as the reduced
\* fraction value[i] / value[i-1] (the return plus one); <<>> for NaN
ReturnAt(i) ==
  LET v == portfolio_values[i].value
      u == portfolio_values[i - 1].value
  IN  IF u = 0 \/ u = NaN \/ v = NaN THEN <<>>
      ELSE <<v \div GCD(v, u), u \div GCD(v, u)>>

\* returns.std() * sqrt(252), as far as the test `volatility > 0` sees it: the
\* sample deviation is NaN with fewer than two returns, zero when the returns
\* are all equal, positive otherwise
volatility ==
  LET I == {i \in 2..Len(portfolio_values) : ReturnAt(i) # <<>>}
  IN  IF Cardinality(I) < 2 THEN "nan"
      ELSE IF Cardinality({ReturnAt(i) : i \in I}) = 1 THEN "zero"
      ELSE "positive"

\* a Sharpe ratio that divides whatever the volatility
sharpe_ratio_unguarded(vol) == "annualized_return / volatility"

\* annualized_return / volatility if volatility > 0 else 0
sharpe_ratio(vol) == IF vol = "positive" THEN "annualized_return / volatility" ELSE "0"

\* AdvancedMomentumRotationStrategy.stop, once the feeds are exhausted
stop ==
  /\ pc = "feed"
  /\ bar = feed.bars
  /\ results' = <<[volatility |-> volatility, sharpe_ratio |-> sharpe_ratio(volatility),
                   trade_history |-> trade_history, rebalance_history |-> rebalance_history,
                   final_positions |-> current_positions]>>
  /\ pc' = "done"
  /\ UNCHANGED <<cfg, feed, bar, date, closes, cash, position, pending_orders, executed, failed,
                 last_rebalance_date, trailing_stops, current_positions,
                 portfolio_values, trade_history, rebalance_history, rotation, macross>>

Next == Advance \/ next \/ stop

Spec == Init /\ [][Next]_vars

\* cerebro.run() delivers the next bar as long as the feeds have one and never
\* pauses between two bars.
\* the step of the run loop that moves every feed to its next bar; within Next
\* these are exactly the steps of Advance, which is enabled whenever a bar is left
NextBar == pc = "feed" /\ bar < feed.bars /\ pc' = "next"

FairSpec == Spec /\ WF_pc(NextBar)

\* weekly runs in which both assets can fall on every scheduled bar
DegenerateScenarios ==
  { [params |-> Params(1, 100, "weekly"),
     prices |-> [A |-> {19, 20}, B |-> {19, 20}], gaps |-> {1, 6}, datas |-> Datas,
     bars |-> MaxBars],
    [params |-> Params(1, 100, "daily"),
     prices |-> [A |-> {19, 20}, B |-> {19, 20}], gaps |-> {1}, datas |-> Datas,
     bars |-> 1] }

DegenerateSpec == InitOf(DegenerateScenarios) /\ [][Next]_vars

\* _execute_trades on its own: one scheduled evaluation, by `next`, of a
\* portfolio drawn from a grid: cash, and 0..MaxShares shares of A at a close
\* of 20 (bought at 20, so that no stop triggers). A has momentum 0 and is
\* selected; B falls and is not a candidate. The grid is one on which the
\* floating-point arithmetic of lines 239-266 and exact arithmetic give the
\* same orders.
TradeCash == {1180 * CashScale, 100 * CashScale}

TradeCloses(last) == [k \in 1..(LookbackPeriod + 1) |-> IF k <= LookbackPeriod THEN 20 ELSE last]

TradeInit ==
  /\ cfg \in {Params(1, 40, "daily"), Params(1, 100, "daily")}
  /\ feed = [prices |-> [A |-> {20}, B |-> {19, 20}], gaps |-> {1},
             last |-> [A |-> 20, B |-> 19], datas |-> Datas, bars |-> LookbackPeriod + 1]
  /\ pc = "next"
  /\ bar = LookbackPeriod + 1
  /\ date = LookbackPeriod
  /\ closes = [A |-> TradeCloses(20), B |-> TradeCloses(19)]
  /\ cash \in TradeCash
  /\ \E n \in 0..MaxShares :
       /\ position = [A |-> IF n = 0 THEN FlatPosition ELSE [size |-> n, pnum |-> 20, pden |-> 1],
                      B |-> FlatPosition]
       /\ trailing_stops = [A |-> IF n = 0 THEN <<>> ELSE <<20>>, B |-> <<>>]
  /\ pending_orders = <<>>
  /\ executed = <<>>
  /\ failed = <<>>
  /\ last_rebalance_date = <<LookbackPeriod - 1>>
  /\ current_positions = NoTargets
  /\ portfolio_values = <<>>
  /\ trade_history = <<>>
  /\ rebalance_history = <<>>
  /\ results = <<>>
  /\ rotation = <<>>
  /\ macross = <<>>

TradeSpec == TradeInit /\ [][next]_vars

\* one scheduled evaluation of a portfolio that holds B while B's close of
\* the bar is NaN; A is as in TradeInit
NaNInit ==
  /\ cfg \in {Params(1, 40, "daily"), Params(1, 100, "daily")}
  /\ feed = [prices |-> [A |-> {20}, B |-> {NaN, 20}], gaps |-> {1},
             last |-> [A |-> 20, B |-> NaN], datas |-> Datas, bars |-> LookbackPeriod + 1]
  /\ pc = "next"
  /\ bar = LookbackPeriod + 1
  /\ date = LookbackPeriod
  /\ closes = [A |-> TradeCloses(20), B |-> TradeCloses(NaN)]
  /\ cash \in TradeCash
  /\ \E n \in 0..MaxShares :
       /\ position = [A |-> IF n = 0 THEN FlatPosition ELSE [size |-> n, pnum |-> 20, pden |-> 1],
                      B |-> [size |-> 2, pnum |-> 20, pden |-> 1]]
       /\ trailing_stops = [A |-> IF n = 0 THEN <<>> ELSE <<20>>, B |-> <<20>>]
  /\ pending_orders = <<>>
  /\ executed = <<>>
  /\ failed = <<>>
  /\ last_rebalance_date = <<LookbackPeriod - 1>>
  /\ current_positions = NoTargets
  /\ portfolio_values = <<>>
  /\ trade_history = <<>>
  /\ rebalance_history = <<>>
  /\ results = <<>>
  /\ rotation = <<>>
  /\ macross = <<>>

NaNSpec == NaNInit /\ [][next]_vars

\* one evaluation, by `next`, of a portfolio as in TradeInit on a date for
\* which B has no bar: B's line stays at its last close, and an order created
\* for B on the previous bar may still be with the broker, which matches a
\* market order only against a bar later than the order.
GateInit ==
  /\ cfg \in {Params(1, 40, "daily"), Params(1, 100, "daily")}
  /\ feed = [prices |-> [A |-> {20}, B |-> {20}], gaps |-> {1},
             last |-> [A |-> 20, B |-> 20], datas |-> Datas, bars |-> LookbackPeriod + 1]
  /\ pc = "next"
  /\ bar = LookbackPeriod + 1
  /\ date = LookbackPeriod
  /\ closes = [A |-> TradeCloses(20), B |-> [k \in 1..LookbackPeriod |-> 20]]
  /\ cash \in TradeCash
  /\ \E n \in 0..MaxShares :
       /\ position = [A |-> IF n = 0 THEN FlatPosition ELSE [size |-> n, pnum |-> 20, pden |-> 1],
                      B |-> FlatPosition]
       /\ trailing_stops = [A |-> IF n = 0 THEN <<>> ELSE <<20>>, B |-> <<>>]
  /\ pending_orders \in
       {<<>>, <<[action |-> "buy", symbol |-> "B", size |-> 1, price |-> 20,
                 date |-> LookbackPeriod - 1, origin |-> "rebalance"]>>}
  /\ executed = <<>>
  /\ failed = <<>>
  /\ last_rebalance_date = <<LookbackPeriod - 1>>
  /\ current_positions = NoTargets
  /\ portfolio_values = <<>>
  /\ trade_history = <<>>
  /\ rebalance_history = <<>>
  /\ results = <<>>
  /\ rotation = <<>>
  /\ macross = <<>>

GateSpec == GateInit /\ [][next]_vars

\* ------------------------------------------------------------ construction
\* run_backtest with arbitrary strategy_params and initial_capital: the
\* broker gets its cash, then cerebro.run() constructs the strategy. Fractions
\* are in percent, transaction_cost in 1/1000.
ConfigGrid ==
  [top_n_holdings : {0, 1}, lookback_period : {0, LookbackPeriod},
   position_size : {0, PositionSizePct, 101}, max_position_size : {0, 40, 101},
   rebalance_freq : {"daily", "hourly"}, stop_loss_pct : {StopLossPct, 0},
   trailing_stop_pct : {0, TrailingStopPct}, transaction_cost : {-1, TransactionCostPm},
   min_cash_buffer : {MinCashBufferPct, 100}, initial_capital : {0, InitialCapital}]

\* a validation that forgets the lookback period
validate_parameters_no_lookback ==
  IF cfg.top_n_holdings <= 0 THEN "ValueError"
  ELSE IF ~(0 < cfg.position_size /\ cfg.position_size <= 100) THEN "ValueError"
  ELSE IF ~(0 < cfg.max_position_size /\ cfg.max_position_size <= 100) THEN "ValueError"
  ELSE IF cfg.rebalance_freq \notin {"daily", "weekly", "monthly"} THEN "ValueError"
  ELSE "ok"

\* _validate_parameters
validate_parameters ==
  IF cfg.top_n_holdings <= 0 THEN "ValueError"
  ELSE IF ~(0 < cfg.position_size /\ cfg.position_size <= 100) THEN "ValueError"
  ELSE IF ~(0 < cfg.max_position_size /\ cfg.max_position_size <= 100) THEN "ValueError"
  ELSE IF cfg.rebalance_freq \notin {"daily", "weekly", "monthly"} THEN "ValueError"
  ELSE IF cfg.lookback_period <= 0 THEN "ValueError"
  ELSE "ok"

ConfigInit ==
  /\ cfg \in ConfigGrid
  /\ feed = [prices |-> [A |-> {20}, B |-> {19}], gaps |-> {1},
             last |-> [A |-> 20, B |-> 19], datas |-> Datas, bars |-> MaxBars]
  /\ pc = "new"
  /\ bar = 0
  /\ date = 0
  /\ closes = [s \in Symbols |-> <<>>]
  /\ cash = cfg.initial_capital * CashScale
  /\ position = [s \in Symbols |-> FlatPosition]
  /\ pending_orders = <<>>
  /\ executed = <<>>
  /\ failed = <<>>
  /\ last_rebalance_date = <<>>
  /\ trailing_stops = [s \in Symbols |-> <<>>]
  /\ current_positions = NoTargets
  /\ portfolio_values = <<>>
  /\ trade_history = <<>>
  /\ rebalance_history = <<>>
  /\ results = <<>>
  /\ rotation = <<>>
  /\ macross = <<>>

\* AdvancedMomentumRotationStrategy.__init__: the empty logs are already
\* there; a ValueError of _validate_parameters ends the run
construct ==
  /\ pc = "new"
  /\ pc' = IF validate_parameters = "ok" THEN "feed" ELSE "error"
  /\ UNCHANGED <<cfg, feed, bar, date, closes, cash, position, pending_orders, executed, failed,
                 last_rebalance_date, trailing_stops, current_positions,
                 portfolio_values, trade_history, rebalance_history, results, rotation, macross>>

ConfigNext == construct \/ Advance \/ next \/ stop

ConfigSpec == ConfigInit /\ [][ConfigNext]_vars

\* ------------------------------------------------------------ scenario A
\* run_backtest on a single symbol whose close rises strictly on every bar,
\* with top_n_holdings = 1 and position_size = max_position_size = 1.0. A
\* fill price lies between the previous and the new close, so no position is
\* ever below its entry price.
RisingScenarios ==
  { [params |-> [Params(1, 100, "daily") EXCEPT !.position_size = 100],
     prices |-> [A |-> 15..20, B |-> {20}], gaps |-> {1}, datas |-> <<"A">>,
     bars |-> MaxBars] }

Rising ==
  \A i \in DOMAIN feed.datas :
    LET c == closes[feed.datas[i]]
    IN  /\ \A k \in 2..Len(c) : c[k - 1] < c[k]
        /\ bar < feed.bars /\ c # <<>> => c[Len(c)] < feed.last[feed.datas[i]]

RisingAdvance == Advance /\ Rising'

RisingNext == RisingAdvance \/ next \/ stop

RisingSpec == InitOf(RisingScenarios) /\ [][RisingNext]_vars

\* ------------------------------------------------------------ loading
\* run_backtest from its first statement: feed.symbols is the caller's symbol
\* list and feed.load what the query of each symbol gives: rows ("ok"), no row
\* ("empty") or an exception ("error").
LoadOutcomes == {"ok", "empty", "error"}

RECURSIVE Loaded(_, _)
Loaded(symbols, keep) ==
  IF symbols = <<>> THEN <<>>
  ELSE (IF keep[Head(symbols)] THEN <<Head(symbols)>> ELSE <<>>) \o Loaded(Tail(symbols), keep)

\* a loader that gives up on the whole request when one symbol has no data
get_price_data_all_or_nothing ==
  IF \A s \in Symbols : feed.load[s] = "ok" THEN feed.symbols ELSE <<>>

\* get_price_data: the symbols that have a frame in price_data, in the order
\* of the request
get_price_data == Loaded(feed.symbols, [s \in Symbols |-> feed.load[s] = "ok"])

LoadInit ==
  /\ cfg \in {Params(1, 100, "daily"), Params(2, 40, "daily")}
  /\ \E load \in [Symbols -> LoadOutcomes], last \in QuotesOf([A |-> {19, 20}, B |-> {20}]) :
       feed = [prices |-> [A |-> {19, 20}, B |-> {20}], gaps |-> {1}, last |-> last,
               datas |-> <<>>, bars |-> MaxBars, symbols |-> Datas, load |-> load]
  /\ pc = "load"
  /\ bar = 0
  /\ date = 0
  /\ closes = [s \in Symbols |-> <<>>]
  /\ cash = InitialCapital * CashScale
  /\ position = [s \in Symbols |-> FlatPosition]
  /\ pending_orders = <<>>
  /\ executed = <<>>
  /\ failed = <<>>
  /\ last_rebalance_date = <<>>
  /\ trailing_stops = [s \in Symbols |-> <<>>]
  /\ current_positions = NoTargets
  /\ portfolio_values = <<>>
  /\ trade_history = <<>>
  /\ rebalance_history = <<>>
  /\ results = <<>>
  /\ rotation = <<>>
  /\ macross = <<>>

\* run_backtest up to cerebro.run(): ValueError without price data, else one
\* feed per loaded symbol
run_backtest ==
  /\ pc = "load"
  /\ LET price_data == get_price_data
     IN  IF price_data = <<>>
           THEN pc' = "error" /\ feed' = feed
           ELSE pc' = "feed" /\ feed' = [feed EXCEPT !.datas = price_data]
  /\ UNCHANGED <<cfg, bar, date, closes, cash, position, pending_orders, executed, failed,
                 last_rebalance_date, trailing_stops, current_positions,
                 portfolio_values, trade_history, rebalance_history, results, rotation, macross>>

LoadNext == run_backtest \/ Advance \/ next \/ stop

LoadSpec == LoadInit /\ [][LoadNext]_vars

\* ------------------------------------------------- the basic strategy
\* MomentumRotationStrategy (momentum_rotation.py) run by BacktestRunner:
\* the same Cerebro and broker, orders of one share (the default sizer), no
\* commission. Day 0 is a Monday; chinese_calendar's is_workday is taken
\* without public holidays: Monday to Friday.
Weekday(d) == d % 7

is_trading_day(d) == Weekday(d) < 5

\* is_last_trading_day_of_week: a weekday with no trading day after it in
\* the same week
is_last_trading_day_of_week(d) ==
  /\ Weekday(d) < 5
  /\ \A k \in 1..4 : Weekday(d) + k < 5 => ~is_trading_day(d + k)

\* the assets with more than lookback_period bars
Momentums == {s \in Symbols : (\E i \in DOMAIN feed.datas : feed.datas[i] = s)
                                /\ Len(closes[s]) > LookbackPeriod}

\* max(momentums, key=momentums.get): the first of the best, in feed order
TopAsset ==
  CHOOSE s \in Momentums :
    \A t \in Momentums \ {s} :
      LET a == [cur |-> close[s], past |-> PastClose(s)]
          b == [cur |-> close[t], past |-> PastClose(t)]
      IN  ScoreGreater(a, b) \/ (~ScoreGreater(b, a) /\ IndexOf(s) < IndexOf(t))

RotationInit ==
  /\ cfg = [lookback_period |-> LookbackPeriod, top_n |-> 1]
  /\ \E last \in QuotesOf([A |-> {18, 20}, B |-> {19, 20}]) :
       feed = [prices |-> [A |-> {18, 20}, B |-> {19, 20}], gaps |-> {1, 7}, last |-> last,
               datas |-> Datas, bars |-> MaxBars]
  /\ pc = "feed"
  /\ bar = 0
  /\ date \in 3..4
  /\ closes = [s \in Symbols |-> <<>>]
  /\ cash = InitialCapital * CashScale
  /\ position = [s \in Symbols |-> FlatPosition]
  /\ pending_orders = <<>>
  /\ executed = <<>>
  /\ failed = <<>>
  /\ last_rebalance_date = <<>>
  /\ trailing_stops = [s \in Symbols |-> <<>>]
  /\ current_positions = NoTargets
  /\ portfolio_values = <<>>
  /\ trade_history = <<>>
  /\ rebalance_history = <<>>
  /\ results = <<>>
  /\ rotation = [order |-> <<>>, current_holding |-> <<>>, days_in_position |-> 0,
                 last_trading_day |-> <<>>, raised |-> <<>>]
  /\ macross = <<>>

\* the next bar, the broker's matching, and MomentumRotationStrategy.notify_order
rotation_advance ==
  /\ AdvanceBar
  /\ rotation' = [rotation EXCEPT !.order = IF pending_orders = <<>> THEN @ ELSE <<>>]
  /\ UNCHANGED macross

\* MomentumRotationStrategy.next
rotation_next ==
  /\ pc = "next"
  /\ LET last == is_last_trading_day_of_week(date)
         r0   == [rotation EXCEPT !.last_trading_day = <<last>>]
     IN  IF rotation.order # <<>>
           THEN pc' = "feed" /\ UNCHANGED <<rotation, pending_orders>>
         ELSE IF ~last
           THEN pc' = "feed" /\ rotation' = r0 /\ UNCHANGED pending_orders
         ELSE IF Momentums = {}
           THEN /\ pc' = "error"
                /\ rotation' = [r0 EXCEPT !.raised = <<"ValueError">>]
                /\ UNCHANGED pending_orders
         ELSE IF rotation.current_holding # <<TopAsset>>
           THEN LET sells == IF rotation.current_holding = <<>> THEN <<>>
                             ELSE <<Order("sell", rotation.current_holding[1], 1, "rotation")>>
                    buy   == Order("buy", TopAsset, 1, "rotation")
                IN  /\ pending_orders' = pending_orders \o sells \o <<buy>>
                    /\ rotation' = [r0 EXCEPT !.order = <<buy>>,
                                              !.current_holding = <<TopAsset>>,
                                              !.days_in_position = 0]
                    /\ pc' = "feed"
         ELSE LET s == rotation.current_holding[1]
                  c == closes[s]
              IN  IF close[s] * 100 < c[Len(c) - 1] * 95
                    THEN /\ pending_orders' = pending_orders \o <<Order("sell", s, 1, "rotation")>>
                         /\ rotation' = [r0 EXCEPT !.order = <<Order("sell", s, 1, "rotation")>>,
                                                   !.current_holding = <<>>,
                                                   !.days_in_position = 0]
                         /\ pc' = "feed"
                    ELSE /\ rotation' = [r0 EXCEPT !.days_in_position = @ + 1]
                         /\ pc' = "feed"
                         /\ UNCHANGED pending_orders
  /\ UNCHANGED <<cfg, feed, bar, date, closes, cash, position, executed, failed,
                 last_rebalance_date, trailing_stops, current_positions,
                 portfolio_values, trade_history, rebalance_history, results, macross>>

\* MomentumRotationStrategy.stop: self.broker.getvalue() is a float, and
\* subscripting it raises TypeError
rotation_stop ==
  /\ pc = "feed"
  /\ bar = feed.bars
  /\ pc' = "error"
  /\ rotation' = [rotation EXCEPT !.raised = <<"TypeError">>]
  /\ UNCHANGED <<cfg, feed, bar, date, closes, cash, position, pending_orders, executed, failed,
                 last_rebalance_date, trailing_stops, current_positions,
                 portfolio_values, trade_history, rebalance_history, results, macross>>

RotationNext == rotation_advance \/ rotation_next \/ rotation_stop

RotationSpec == RotationInit /\ [][RotationNext]_vars

\* ------------------------------------------------- MACrossStrategy
\* ma_cross_strategy.py, generate_signals over the rows load_data() left. Prices
\* and ATR are whole numbers; a cell of a float column is <<>> for NaN and <<v>>
\* for a number; atr_multiplier and trailing_stop are counted in halves;
\* position_size is the fraction num/den.
MaxRows == 4

RiskPerTradePct == 2

PortfolioValue == 100000

MACloses == {97, 99, 100}

MAATRs == {2, 5}

\* the rows of self.data: close, ATR and the signal of lines 101-110
MAInputs ==
  { rows \in [1..MaxRows -> [close : MACloses, ATR : MAATRs, signal : {-1, 0, 1}]] :
      rows[1].close = 100 /\ rows[1].ATR = 2 }

Fraction(n, d) == [num |-> n, den |-> d]

MinFraction(a, b) == IF a.num * b.den <= b.num * a.den THEN a ELSE b

\* self.data after lines 113-120: position = signal.diff() and the new columns
MAFrame(rows) ==
  [k \in 1..MaxRows |->
     [close |-> rows[k].close, ATR |-> rows[k].ATR, signal |-> rows[k].signal,
      position |-> IF k = 1 THEN <<>> ELSE <<rows[k].signal - rows[k - 1].signal>>,
      stop_loss |-> <<>>, trailing_stop |-> <<>>, highest_price |-> <<>>,
      atr_multiplier |-> 2, position_size |-> Fraction(0, 1)]]

\* generate_signals on entering its loop
MACrossInit ==
  /\ macross \in { [data |-> MAFrame(rows), i |-> 2, current_position |-> 0,
                    entry_price |-> 0, highest_price |-> 0] : rows \in MAInputs }
  /\ pc = "loop"
  /\ cfg = <<>>
  /\ feed = <<>>
  /\ bar = 0
  /\ date = 0
  /\ closes = [s \in Symbols |-> <<>>]
  /\ cash = 0
  /\ position = [s \in Symbols |-> FlatPosition]
  /\ pending_orders = <<>>
  /\ executed = <<>>
  /\ failed = <<>>
  /\ last_rebalance_date = <<>>
  /\ trailing_stops = [s \in Symbols |-> <<>>]
  /\ current_positions = NoTargets
  /\ portfolio_values = <<>>
  /\ trade_history = <<>>
  /\ rebalance_history = <<>>
  /\ results = <<>>
  /\ rotation = <<>>

\* `current_price <= column.iloc[i-1]`, false against NaN; scale 1 or 2 (halves)
AtOrBelow(price, cell, scale) == cell # <<>> /\ price * scale <= cell[1]

\* the atr_multiplier of row i after a new high, in halves
AtrMultiplier(row, highest, entry) ==
  IF (highest - entry) * 100 >= 2 * entry THEN 1
  ELSE IF (highest - entry) * 100 >= entry THEN 2
  ELSE row.atr_multiplier

Flat(m) == [m EXCEPT !.current_position = 0, !.entry_price = 0, !.highest_price = 0]

\* one pass of the loop body, row macross.i
generate_signals_row ==
  /\ pc = "loop"
  /\ macross.i <= MaxRows
  /\ LET i    == macross.i
         row  == macross.data[i]
         prev == macross.data[i - 1]
         m    == [macross EXCEPT !.i = i + 1]
     IN  IF row.position = <<1>>
           THEN macross' =
                  [m EXCEPT !.current_position = 1,
                            !.entry_price = row.close,
                            !.highest_price = row.close,
                            !.data[i].stop_loss = <<row.close - row.ATR>>,
                            !.data[i].highest_price = <<row.close>>,
                            !.data[i].atr_multiplier = 2,
                            !.data[i].position_size =
                               MinFraction(Fraction(PortfolioValue * RiskPerTradePct,
                                                    100 * row.ATR),
                                           Fraction(PortfolioValue, row.close))]
         ELSE IF row.position = <<-1>>
           THEN macross' = [Flat(m) EXCEPT !.data[i].position_size = Fraction(0, 1)]
         ELSE IF macross.current_position = 1
           THEN LET highest == Max(row.close, macross.highest_price)
                    mult    == IF row.close > macross.highest_price
                                 THEN AtrMultiplier(row, highest, macross.entry_price)
                                 ELSE row.atr_multiplier
                    held    == [m EXCEPT !.highest_price = highest,
                                         !.data[i].atr_multiplier = mult,
                                         !.data[i].highest_price = <<highest>>,
                                         !.data[i].trailing_stop =
                                            <<2 * highest - mult * row.ATR>>,
                                         !.data[i].position_size = prev.position_size]
                    closed  == [Flat(held) EXCEPT !.data[i].signal = -1,
                                                  !.data[i].position_size = Fraction(0, 1)]
                IN  IF AtOrBelow(row.close, prev.stop_loss, 1) THEN macross' = closed
                    ELSE IF AtOrBelow(row.close, prev.trailing_stop, 2) THEN macross' = closed
                    ELSE macross' = held
         ELSE macross' = m
  /\ UNCHANGED <<cfg, feed, pc, bar, date, closes, cash, position, pending_orders, executed,
                 failed, last_rebalance_date, trailing_stops, current_positions,
                 portfolio_values, trade_history, rebalance_history, results, rotation>>

\* after the loop: position = signal.shift(1).fillna(0)
generate_signals_shift ==
  /\ pc = "loop"
  /\ macross.i > MaxRows
  /\ macross' = [macross EXCEPT !.data =
                   [k \in 1..MaxRows |->
                      [macross.data[k] EXCEPT !.position =
                         <<IF k = 1 THEN 0 ELSE macross.data[k - 1].signal>>]]]
  /\ pc' = "done"
  /\ UNCHANGED <<cfg, feed, bar, date, closes, cash, position, pending_orders, executed,
                 failed, last_rebalance_date, trailing_stops, current_positions,
                 portfolio_values, trade_history, rebalance_history, results, rotation>>

MACrossNext == generate_signals_row \/ generate_signals_shift

MACrossSpec == MACrossInit /\ [][MACrossNext]_vars

\* ------------------------------------------------------------ properties
RiskOrigins == {"stop_loss", "trailing_stop"}
Held(s) == position[s].size > 0
LastSnapshot == portfolio_values[Len(portfolio_values)]
\* the strategy has finished evaluating the current bar
Evaluated == pc \in {"feed", "done"} /\ bar >= 1

\* C1: cash is never negative and a buy that would overdraw cash is filled
\* with a capped quantity: no buy is refused while one share was affordable
\* on top of the buffer min_cash_buffer * portfolio_value.
AffordsOne(f) ==
  (f.price * CashScale + Commission(1, f.price)) * 100 + MinCashBufferPct * f.value
    <= f.cash * 100

C1_CashCappedNotRefused ==
  /\ cash >= 0
  /\ \A i \in DOMAIN failed : ~(failed[i].size > 0 /\ AffordsOne(failed[i]))

\* C2: the value recorded for a bar is the recorded cash plus the shares held
\* on that bar at that bar's closes.
C2_AccountingIdentity ==
  Evaluated =>
    /\ LastSnapshot.date = date
    /\ LastSnapshot.cash = cash
    /\ LastSnapshot.value =
         LastSnapshot.cash
           + SumOver([s \in Symbols |-> position[s].size * closes[s][bar] * CashScale], Symbols)

C2_Witness ==
  /\ Evaluated
  /\ \E i \in DOMAIN executed : executed[i].origin \in RiskOrigins
  /\ \E i \in DOMAIN executed : executed[i].origin = "rebalance" /\ executed[i].size > 0
  /\ \E s \in Symbols : Held(s) /\ closes[s][bar] # position[s].pnum

\* C3: no symbol is ever held in negative quantity.
C3_SharesNonNegative == \A s \in Symbols : position[s].size >= 0

RECURSIVE EntryBarFrom(_, _, _, _)
EntryBarFrom(s, i, size, entry) ==
  IF i > Len(executed) THEN entry
  ELSE IF executed[i].symbol # s THEN EntryBarFrom(s, i + 1, size, entry)
  ELSE EntryBarFrom(s, i + 1, size + executed[i].size,
                    IF size <= 0 /\ size + executed[i].size > 0 THEN executed[i].bar
                    ELSE entry)
EntryBar(s) == EntryBarFrom(s, 1, 0, 0)

HighSince(s, b) ==
  CHOOSE h \in {closes[s][k] : k \in b..bar} : \A k \in b..bar : closes[s][k] <= h

\* C6: for a held position the high-water mark is the highest close since
\* entry, and a trailing-stop sell is submitted exactly on the bars whose
\* close is at or below (1 - trailing_stop_pct) times that mark.
C6_TrailingFromPeakSinceEntry ==
  Evaluated =>
    \A s \in Symbols :
      Held(s) =>
        /\ trailing_stops[s] = <<HighSince(s, EntryBar(s))>>
        /\ (\E i \in DOMAIN pending_orders :
              pending_orders[i].symbol = s /\ pending_orders[i].origin = "trailing_stop")
             <=> closes[s][bar] * 100 <= HighSince(s, EntryBar(s)) * 95

\* C7: on a bar where the risk controller forces a symbol out, the scheduled
\* rebalance of that bar submits no order for that symbol.
C7_ForcedExitBypassesRebalance ==
  Evaluated =>
    \A i, j \in DOMAIN pending_orders :
      pending_orders[i].origin \in RiskOrigins /\ pending_orders[j].origin = "rebalance"
        => pending_orders[i].symbol # pending_orders[j].symbol

\* C8: once the broker has processed a bar there is one trade record per
\* executed order, and every risk-forced fill has its record.
C8_OneRecordPerExecutedOrder ==
  pc = "next" =>
    /\ Len(trade_history) = Len(executed)
    /\ \A i \in DOMAIN executed :
         executed[i].origin \in RiskOrigins
           => \E k \in DOMAIN trade_history :
                /\ trade_history[k].symbol = executed[i].symbol
                /\ trade_history[k].date = executed[i].created
                /\ trade_history[k].action = "sell"
                /\ trade_history[k].shares = -executed[i].size

\* the origin of the last fill of s, <<>> when there is none
LastFillOrigin(s) ==
  LET I == {i \in DOMAIN executed : executed[i].symbol = s}
  IN  IF I = {} THEN <<>> ELSE <<executed[CHOOSE i \in I : \A k \in I : k <= i].origin>>

\* C9: a symbol that a forced liquidation has closed keeps no risk state:
\* neither an entry price nor a high-water mark.
C9_RiskStateClearedAfterForcedExit ==
  Evaluated =>
    \A s \in Symbols :
      position[s].size = 0 /\ LastFillOrigin(s) # <<>> /\ LastFillOrigin(s)[1] \in RiskOrigins
        => position[s].pnum = 0 /\ trailing_stops[s] = <<>>

\* C10: the scheduler fires on a bar (a rebalance event is appended) if and
\* only if there was no rebalance yet or at least 1 / 7 / 30 calendar days
\* have passed since the last one for daily / weekly / monthly.
C10_Fires ==
  \/ last_rebalance_date = <<>>
  \/ cfg.rebalance_freq = "daily" /\ date - last_rebalance_date[1] >= 1
  \/ cfg.rebalance_freq = "weekly" /\ date - last_rebalance_date[1] >= 7
  \/ cfg.rebalance_freq = "monthly" /\ date - last_rebalance_date[1] >= 30

C10_SchedulerFiresIff ==
  [][pc = "next" =>
       (C10_Fires <=> Len(rebalance_history') = Len(rebalance_history) + 1)]_vars

C10_Witness ==
  /\ Len(rebalance_history) >= 2
  /\ \/ /\ cfg.rebalance_freq = "weekly"
        /\ rebalance_history[2].date - rebalance_history[1].date = 7
        /\ date > rebalance_history[2].date
     \/ /\ cfg.rebalance_freq = "monthly"
        /\ rebalance_history[2].date - rebalance_history[1].date = 30

LastEvent == rebalance_history[Len(rebalance_history)]
\* the scheduler fired on the current bar, which the strategy has finished
FiredThisBar == Evaluated /\ rebalance_history # <<>> /\ LastEvent.date = date

\* C11: a bar on which the scheduler fires leaves last_rebalance_date at that
\* bar's date, whether or not a trade was submitted; any other step leaves
\* last_rebalance_date unchanged.
C11_LastRebalanceDateOnFire ==
  [][IF pc = "next" /\ C10_Fires
       THEN last_rebalance_date' = <<date>>
       ELSE last_rebalance_date' = last_rebalance_date]_vars

\* a fired bar that submitted no order although something is selected and held
C11_Witness ==
  /\ FiredThisBar
  /\ Len(rebalance_history) >= 2
  /\ LastEvent.selected_assets # <<>>
  /\ \E s \in Symbols : Held(s)
  /\ pending_orders = <<>>
  /\ last_rebalance_date = <<date>>

\* C12: the rebalance history only grows, by one event at a time at its end;
\* event dates strictly increase and consecutive events are at least 1 / 7 / 30
\* calendar days apart for daily / weekly / monthly.
C12_MinDays ==
  IF cfg.rebalance_freq = "daily" THEN 1 ELSE IF cfg.rebalance_freq = "weekly" THEN 7 ELSE 30

C12_Spaced ==
  \A i \in 1..(Len(rebalance_history) - 1) :
    /\ rebalance_history[i + 1].date > rebalance_history[i].date
    /\ rebalance_history[i + 1].date - rebalance_history[i].date >= C12_MinDays

C12_HistoryAppendOnlySpaced ==
  /\ []C12_Spaced
  /\ [][\/ rebalance_history' = rebalance_history
        \/ /\ pc = "next"
           /\ Len(rebalance_history') = Len(rebalance_history) + 1
           /\ SubSeq(rebalance_history', 1, Len(rebalance_history)) = rebalance_history
           /\ rebalance_history'[Len(rebalance_history')].date = date]_vars

\* two events with a bar in between that was too early to fire
C12_Witness ==
  /\ Len(rebalance_history) >= 2
  /\ cfg.rebalance_freq # "daily"
  /\ \E i \in DOMAIN portfolio_values :
       /\ portfolio_values[i].date > rebalance_history[1].date
       /\ portfolio_values[i].date < rebalance_history[2].date
       /\ portfolio_values[i].date - rebalance_history[1].date < C12_MinDays

\* C13: buys and rotation sells are submitted only on bars where the scheduler
\* fires: on any other bar the strategy submits nothing but risk-forced sells
\* and records no trade, and every fill of a buy or a rotation sell stems from
\* an order created on the date of a rebalance event.
C13_TradesOnlyWhenScheduled ==
  /\ [](\A i \in DOMAIN executed :
          executed[i].size > 0 \/ executed[i].origin = "rebalance"
            => \E k \in DOMAIN rebalance_history :
                 rebalance_history[k].date = executed[i].created)
  /\ [][pc = "next" /\ ~C10_Fires
          => /\ trade_history' = trade_history
             /\ \A i \in DOMAIN pending_orders' :
                  /\ pending_orders'[i].origin \in RiskOrigins
                  /\ pending_orders'[i].size < 0]_vars

\* an unscheduled bar on which a forced liquidation was filled: the portfolio
\* is all cash, an asset qualifies for selection, and nothing is bought
C13_Witness ==
  /\ Evaluated
  /\ last_rebalance_date # <<date>>
  /\ \E i \in DOMAIN executed : executed[i].origin \in RiskOrigins /\ executed[i].bar = bar
  /\ \A s \in Symbols : position[s].size = 0
  /\ select_top_assets(calculate_momentum_scores) # <<>>
  /\ pending_orders = <<>>

\* C14: fills are instantaneous: every order submitted while a bar is evaluated
\* is executed on that bar at that bar's close, so no order is outstanding
\* once the bar has been evaluated.
C14_FillsInstantaneous ==
  /\ Evaluated => pending_orders = <<>>
  /\ \A i \in DOMAIN executed :
       /\ executed[i].date = executed[i].created
       /\ executed[i].price = closes[executed[i].symbol][executed[i].bar]

\* C15: at evaluation index t (the bar-th bar, t = bar - 1) an asset has a
\* score only if t >= lookback_period, the score is then
\* close[t] / close[t - lookback_period] - 1 from the bars seen so far, and an
\* asset with that much history whose score meets the threshold has a score.
C15_ScoreIffEnoughHistory ==
  FiredThisBar =>
    \A s \in Symbols :
      /\ LastEvent.momentum_scores[s] # <<>>
           => /\ bar - 1 >= LookbackPeriod
              /\ LastEvent.momentum_scores[s][1].cur = closes[s][bar]
              /\ LastEvent.momentum_scores[s][1].past = closes[s][bar - LookbackPeriod]
      /\ (bar - 1 >= LookbackPeriod /\ closes[s][bar] >= closes[s][bar - LookbackPeriod])
           => LastEvent.momentum_scores[s] # <<>>

\* C16: in an evaluation every asset with enough history has its score in the
\* event's momentum_scores, also when the score is below
\* min_momentum_threshold (0); only assets whose score is at or above the
\* threshold are selected, and with room in the selection an asset whose score
\* equals the threshold is selected.
C16_Selected(s) == \E i \in DOMAIN LastEvent.selected_assets : LastEvent.selected_assets[i] = s

C16_BelowThresholdRecorded ==
  FiredThisBar /\ bar - 1 >= LookbackPeriod =>
    \A s \in Symbols :
      /\ LastEvent.momentum_scores[s] # <<>>
      /\ C16_Selected(s) => closes[s][bar] >= closes[s][bar - LookbackPeriod]
      /\ (closes[s][bar] = closes[s][bar - LookbackPeriod]
            /\ cfg.top_n_holdings = Cardinality(Symbols))
           => C16_Selected(s)

\* C17: the selection lists the scored assets by score descending, equal
\* scores by symbol ascending, whatever the order of the data feeds.
C17_SymbolRank(s) == CHOOSE i \in DOMAIN Datas : Datas[i] = s

C17_Precedes(sc, s, t) ==
  \/ sc[s][1].cur * sc[t][1].past > sc[t][1].cur * sc[s][1].past
  \/ /\ sc[s][1].cur * sc[t][1].past = sc[t][1].cur * sc[s][1].past
     /\ C17_SymbolRank(s) < C17_SymbolRank(t)

C17_TiesBySymbolAscending ==
  FiredThisBar =>
    LET sc   == LastEvent.momentum_scores
        cand == {s \in Symbols : sc[s] # <<>>}
    IN  \A i \in DOMAIN LastEvent.selected_assets :
          Cardinality({t \in cand : C17_Precedes(sc, t, LastEvent.selected_assets[i])}) = i - 1

\* C18: the selection has exactly min(top_n_holdings, number of scored assets)
\* distinct scored symbols, no unselected scored asset has a higher score than
\* a selected one, and without scored assets the selection is empty.
C18_SelectionSizeAndOrder ==
  FiredThisBar =>
    LET sc   == LastEvent.momentum_scores
        sel  == LastEvent.selected_assets
        cand == {s \in Symbols : sc[s] # <<>>}
        in   == {sel[i] : i \in DOMAIN sel}
    IN  /\ Len(sel) = IF cfg.top_n_holdings <= Cardinality(cand)
                        THEN cfg.top_n_holdings ELSE Cardinality(cand)
        /\ Cardinality(in) = Len(sel)
        /\ in \subseteq cand
        /\ \A s \in in, t \in cand \ in :
             sc[s][1].cur * sc[t][1].past >= sc[t][1].cur * sc[s][1].past
        /\ cand = {} => sel = <<>>

\* an evaluation that selected the second feed's asset over the scored asset
\* of the first feed, after an earlier evaluation without any scored asset
C18_Witness ==
  /\ FiredThisBar
  /\ cfg.top_n_holdings = 1
  /\ LastEvent.selected_assets = <<feed.datas[2]>>
  /\ LastEvent.momentum_scores[feed.datas[1]] # <<>>
  /\ \E k \in DOMAIN rebalance_history : rebalance_history[k].selected_assets = <<>>

\* C19: the targets of an evaluation give every selected asset, and no other,
\* the weight min(position_size / n, max_position_size), n the size of the
\* selection; the weights add up to at most position_size; an empty selection
\* gives empty targets. A weight is num/den, max_position_size is in percent.
C19_EqualWeightClamped ==
  FiredThisBar =>
    LET sel == LastEvent.selected_assets
        tp  == LastEvent.target_positions
        n   == Len(sel)
    IN  /\ tp.assets = sel
        /\ n = 0 => tp = NoTargets
        /\ n > 0 =>
             /\ IF PositionSizePct <= cfg.max_position_size * n
                  THEN tp.num * 100 * n = PositionSizePct * tp.den
                  ELSE tp.num * 100 = cfg.max_position_size * tp.den
             /\ n * tp.num * 100 <= PositionSizePct * tp.den

\* two assets selected, each clamped to max_position_size, the rest uninvested
C19_Witness ==
  /\ FiredThisBar
  /\ Len(LastEvent.selected_assets) = 2
  /\ LastEvent.target_positions.num * 100
       = cfg.max_position_size * LastEvent.target_positions.den
  /\ 2 * LastEvent.target_positions.num * 100
       < PositionSizePct * LastEvent.target_positions.den
  /\ \E k \in DOMAIN rebalance_history : rebalance_history[k].target_positions = NoTargets

\* C20: applying targets sells every held symbol that is absent from them in
\* full: on the evaluated bar such a symbol has a rotation sell for all its
\* shares, and once the broker has filled a rotation sell of a symbol absent
\* from the targets that symbol has zero shares.
C20_AbsentHoldingsSoldInFull ==
  /\ FiredThisBar =>
       \A s \in Symbols :
         position[s].size # 0 /\ ~InTargets(LastEvent.target_positions, s)
           => \E i \in DOMAIN pending_orders :
                /\ pending_orders[i].symbol = s
                /\ pending_orders[i].origin = "rebalance"
                /\ pending_orders[i].size = -position[s].size
  /\ pc = "next" =>
       \A i \in DOMAIN executed :
         (/\ executed[i].bar = bar
          /\ executed[i].origin = "rebalance"
          /\ executed[i].size < 0
          /\ ~InTargets(current_positions, executed[i].symbol))
           => position[executed[i].symbol].size = 0

\* target weight minus current weight of s, times den * portfolio value
C21_DiffNum(s) ==
  current_positions.num * getvalue
    - current_positions.den * position[s].size * close[s] * CashScale

C21_HasOrder(s) ==
  \E i \in DOMAIN pending_orders :
    pending_orders[i].symbol = s /\ pending_orders[i].origin = "rebalance"

\* C21: for a symbol in the targets of an evaluation no order is submitted
\* when |target - current weight| < 1%, and one is submitted when the
\* difference is >= 1% (exactly 1% included) and worth at least one share.
C21_MaterialityThreshold ==
  FiredThisBar =>
    \A s \in Symbols :
      InTargets(current_positions, s) =>
        /\ Abs(C21_DiffNum(s)) < (current_positions.den \div 100) * getvalue
             => ~C21_HasOrder(s)
        /\ (/\ Abs(C21_DiffNum(s)) >= (current_positions.den \div 100) * getvalue
            /\ Abs(C21_DiffNum(s)) >= current_positions.den * close[s] * CashScale)
             => C21_HasOrder(s)

\* the value of one share of s, times den
C22_ShareNum(s) == current_positions.den * close[s] * CashScale

\* C22: the order of an evaluation for a target symbol is for a whole number
\* n >= 1 of shares, a buy when the value to trade is positive and a sell when
\* it is negative, with n the value to trade divided by the price and
\* truncated toward zero (n * price <= |value| < (n + 1) * price); when that
\* is zero there is no order; every order has its trade record and there is
\* no other record.
C22_WholeSharesTruncated ==
  FiredThisBar =>
    /\ \A i \in DOMAIN pending_orders :
         pending_orders[i].origin = "rebalance"
           /\ InTargets(current_positions, pending_orders[i].symbol) =>
           LET o == pending_orders[i]
               D == C21_DiffNum(o.symbol)
               n == Abs(o.size)
           IN  /\ n >= 1
               /\ (o.size > 0) = (D > 0)
               /\ (o.action = "buy") = (o.size > 0)
               /\ n * C22_ShareNum(o.symbol) <= Abs(D)
               /\ Abs(D) < (n + 1) * C22_ShareNum(o.symbol)
    /\ \A s \in Symbols :
         InTargets(current_positions, s) /\ Abs(C21_DiffNum(s)) < C22_ShareNum(s)
           => ~C21_HasOrder(s)
    /\ Cardinality({k \in DOMAIN trade_history : trade_history[k].date = date})
         = Cardinality({i \in DOMAIN pending_orders : pending_orders[i].origin = "rebalance"})
    /\ \A k \in DOMAIN trade_history : trade_history[k].shares >= 1

\* a sell whose share count was truncated: part of a share is left unsold
C22_Witness ==
  /\ FiredThisBar
  /\ \E i \in DOMAIN pending_orders :
       /\ pending_orders[i].origin = "rebalance"
       /\ pending_orders[i].size < -1
       /\ InTargets(current_positions, pending_orders[i].symbol)
       /\ C21_DiffNum(pending_orders[i].symbol) < 0
       /\ Abs(pending_orders[i].size) * C22_ShareNum(pending_orders[i].symbol)
            < Abs(C21_DiffNum(pending_orders[i].symbol))

RECURSIVE C23_CashFlow(_, _)
\* what the fills i.. of the log take out of cash: quantity * price for a buy,
\* minus it for a sell, plus transaction_cost * |quantity * price| for both
C23_CashFlow(fills, i) ==
  IF i > Len(fills) THEN 0
  ELSE fills[i].size * fills[i].price * CashScale
         + TransactionCostPm * Abs(fills[i].size * fills[i].price)
         + C23_CashFlow(fills, i + 1)

C23_CashCharged ==
  [][cash' = cash - C23_CashFlow(executed', Len(executed) + 1)]_vars

\* C23: every executed trade moves cash by quantity * price and charges
\* transaction_cost * |quantity * price| on top, for buys and sells alike, and
\* every trade record carries that cost.
C23_CostChargedAndRecorded ==
  /\ C23_CashCharged
  /\ [](\A k \in DOMAIN trade_history :
          /\ "cost" \in DOMAIN trade_history[k]
          /\ trade_history[k].cost
               = TransactionCostPm * trade_history[k].shares * trade_history[k].price)

C25_Invalid ==
  \/ cfg.top_n_holdings <= 0
  \/ cfg.lookback_period <= 0
  \/ cfg.position_size <= 0 \/ cfg.position_size > 100
  \/ cfg.max_position_size <= 0 \/ cfg.max_position_size > 100
  \/ cfg.rebalance_freq \notin {"daily", "weekly", "monthly"}

C25_NothingRan ==
  /\ pc \in {"new", "error"}
  /\ bar = 0
  /\ portfolio_values = <<>> /\ trade_history = <<>> /\ rebalance_history = <<>>
  /\ pending_orders = <<>>

\* C25: with top_n_holdings <= 0, lookback_period <= 0, position_size or
\* max_position_size outside (0, 1], or an unknown rebalance_freq, construction
\* ends in an error: no bar is ever processed and no snapshot, trade or
\* rebalance record ever exists.
C25_InvalidCoreParamsRejected ==
  /\ C25_Invalid => C25_NothingRan
  /\ C25_Invalid /\ pc # "new" => pc = "error"

\* a construction that failed on the rebalance frequency alone
C25_Witness ==
  /\ pc = "error"
  /\ cfg.rebalance_freq = "hourly"
  /\ cfg.top_n_holdings > 0 /\ cfg.lookback_period > 0
  /\ cfg.position_size = PositionSizePct /\ cfg.max_position_size = 40

C26_Invalid ==
  \/ cfg.stop_loss_pct >= 0
  \/ cfg.trailing_stop_pct <= 0
  \/ cfg.transaction_cost < 0
  \/ cfg.min_cash_buffer < 0 \/ cfg.min_cash_buffer >= 100
  \/ cfg.initial_capital <= 0

\* C26: with stop_loss_pct >= 0, trailing_stop_pct <= 0, transaction_cost < 0,
\* min_cash_buffer outside [0, 1) or initial_capital <= 0, construction ends
\* in an error before the simulation starts.
C26_InvalidRiskCostParamsRejected ==
  /\ C26_Invalid => pc \in {"new", "error"} /\ bar = 0
  /\ C26_Invalid /\ pc # "new" => pc = "error"

C27_NoScores ==
  \A k \in DOMAIN rebalance_history :
    rebalance_history[k].momentum_scores = [s \in Symbols |-> <<>>]

C28_Value(i) == portfolio_values[i].value

\* C28: the Sharpe ratio of a finished run is 0 when the value history has a
\* single bar or is constant, and in general whenever the volatility is zero
\* or undefined; it is annualized_return / volatility exactly when the
\* volatility is positive, as it is when some bar changes the value and
\* another leaves it unchanged.
C28_SharpeZeroWithoutVolatility ==
  pc = "done" =>
    LET n == Len(portfolio_values)
    IN  /\ (n = 1 \/ \A i \in 1..n : C28_Value(i) = C28_Value(1))
             => results[1].sharpe_ratio = "0"
        /\ results[1].volatility # "positive" => results[1].sharpe_ratio = "0"
        /\ results[1].volatility = "positive"
             => results[1].sharpe_ratio = "annualized_return / volatility"
        /\ (/\ \E i \in 2..n : C28_Value(i) # C28_Value(i - 1)
            /\ \E i \in 2..n : C28_Value(i) = C28_Value(i - 1) /\ C28_Value(i) > 0)
             => results[1].volatility = "positive"

\* a finished run of several bars whose value never changed
C28_Witness ==
  /\ pc = "done"
  /\ Len(portfolio_values) = MaxBars
  /\ \A i \in 1..Len(portfolio_values) : C28_Value(i) = InitialCapital * CashScale
  /\ results[1].volatility = "zero"
  /\ results[1].sharpe_ratio = "0"

\* what _select_top_assets returns for the scores sc when the feeds were
\* added in the order `order`
C29_Position(order, s) == CHOOSE i \in DOMAIN order : order[i] = s

C29_Precedes(sc, order, s, t) ==
  \/ sc[s][1].cur * sc[t][1].past > sc[t][1].cur * sc[s][1].past
  \/ /\ sc[s][1].cur * sc[t][1].past = sc[t][1].cur * sc[s][1].past
     /\ C29_Position(order, s) < C29_Position(order, t)

C29_Select(sc, order) ==
  LET cand == {s \in Symbols : sc[s] # <<>>}
      n    == IF cfg.top_n_holdings <= Cardinality(cand)
                THEN cfg.top_n_holdings ELSE Cardinality(cand)
  IN  [i \in 1..n |->
         CHOOSE s \in cand : Cardinality({t \in cand : C29_Precedes(sc, order, t, s)}) = i - 1]

C29_Reversed(order) == [i \in DOMAIN order |-> order[Len(order) + 1 - i]]

\* C29: the histories of a run depend on the price series and the
\* configuration only: every rebalance event selects what the run over the
\* same series with the symbols loaded in the opposite order selects.
C29_IndependentOfLoadOrder ==
  \A k \in DOMAIN rebalance_history :
    rebalance_history[k].selected_assets
      = C29_Select(rebalance_history[k].momentum_scores, C29_Reversed(feed.datas))

C30_Prefix(old, new) == Len(old) <= Len(new) /\ SubSeq(new, 1, Len(old)) = old

C30_Bars == IF pc = "next" THEN bar - 1 ELSE bar

\* C30: every simulated bar has exactly one value snapshot, taken on that
\* bar, the snapshot dates increase strictly, and the snapshots, the trade
\* records and the rebalance events are only ever appended to.
C30_SnapshotPerBarAppendOnly ==
  /\ [](/\ Len(portfolio_values) = C30_Bars
        /\ \A i \in 2..Len(portfolio_values) :
             portfolio_values[i - 1].date < portfolio_values[i].date
        /\ pc # "next" /\ bar > 0 => portfolio_values[bar].date = date)
  /\ [][/\ C30_Prefix(portfolio_values, portfolio_values')
        /\ C30_Prefix(trade_history, trade_history')
        /\ C30_Prefix(rebalance_history, rebalance_history')]_vars

\* a whole run with trades and more than one rebalance event
C30_Witness ==
  /\ pc = "done"
  /\ Len(portfolio_values) = MaxBars
  /\ Len(rebalance_history) >= 2
  /\ Len(trade_history) >= 2

C31_NoSell(orders) == \A i \in DOMAIN orders : orders[i].size > 0

\* C31: in scenario A the asset is bought on the first bar on which it has
\* lookback_period earlier bars, so it is held once that bar is evaluated and
\* on every later bar, and no sell order is ever emitted.
C31_BuysAtFirstEligibleNeverSells ==
  /\ Evaluated /\ bar > LookbackPeriod => Held("A")
  /\ C31_NoSell(pending_orders) /\ C31_NoSell(executed) /\ C31_NoSell(failed)
  /\ \A i \in DOMAIN trade_history : trade_history[i].action = "buy"

\* the step of the strategy on a bar (risk controller, scheduler and the
\* orders they submit) leaves cash and every position as they are
C32_StrategyStepReadsLedger ==
  [][pc = "next" => cash' = cash /\ position' = position]_vars

\* C32: the risk controller and the scheduler leave cash and shares unchanged
\* and only emit intents, and every intent is consumed, i.e. applied to the
\* ledger, on the bar that emitted it.
C32_IntentsConsumedSameBar ==
  /\ C32_StrategyStepReadsLedger
  /\ [](\A i \in DOMAIN executed : executed[i].date = executed[i].created)
  /\ [](\A i \in DOMAIN failed : failed[i].date = failed[i].created)

C33_Usable(s) == feed.load[s] = "ok"

C33_InFeeds(s) == \E i \in DOMAIN feed.datas : feed.datas[i] = s

\* C33: a symbol whose history is empty or fails to load is left out and the
\* run goes on with the others, which alone are scored and traded; the run is
\* aborted, before any bar, only when no requested symbol has data.
C33_MissingSymbolsLeftOut ==
  pc # "load" =>
    /\ pc = "error" <=> \A s \in Symbols : ~C33_Usable(s)
    /\ pc = "error" => bar = 0 /\ portfolio_values = <<>> /\ rebalance_history = <<>>
    /\ pc # "error" =>
         /\ \A s \in Symbols : C33_InFeeds(s) <=> C33_Usable(s)
         /\ Len(feed.datas) = Cardinality({s \in Symbols : C33_Usable(s)})
         /\ \A k \in DOMAIN rebalance_history, s \in Symbols :
              rebalance_history[k].momentum_scores[s] # <<>> => C33_Usable(s)
         /\ \A i \in DOMAIN trade_history : C33_Usable(trade_history[i].symbol)
         /\ pc = "done" => Len(portfolio_values) = feed.bars

\* a complete run that left one symbol out and traded the other
C33_Witness ==
  /\ pc = "done"
  /\ \E s \in Symbols : ~C33_Usable(s)
  /\ trade_history # <<>>
  /\ \E s \in Symbols : Held(s)

\* from one bar to the next the mark of a symbol that stays held does not fall
C34_MarkNeverDecreases ==
  [][\A s \in Symbols :
       Held(s) /\ position'[s].size > 0 /\ trailing_stops[s] # <<>>
         => trailing_stops'[s] # <<>> /\ trailing_stops'[s][1] >= trailing_stops[s][1]]_vars

\* C34: while a position is held its high-water mark never decreases, and on
\* every evaluated bar it is the highest close since the entry.
C34_MarkIsMaxSinceEntry ==
  /\ C34_MarkNeverDecreases
  /\ [](Evaluated =>
          \A s \in Symbols :
            Held(s) => /\ trailing_stops[s] # <<>>
                       /\ trailing_stops[s][1] = HighSince(s, EntryBar(s)))

\* C35: an evaluation day of the basic strategy on which no asset has more
\* than lookback_period bars is handled by doing nothing: no order,
\* current_holding unchanged, no error, and the run goes on to the next bar.
C35_NoEligibleAssetIsNoError ==
  [][pc = "next" /\ rotation.order = <<>> /\ is_last_trading_day_of_week(date)
       /\ Momentums = {}
     => /\ pc' = "feed"
        /\ rotation'.raised = <<>>
        /\ pending_orders' = pending_orders
        /\ rotation'.current_holding = rotation.current_holding]_vars

\* C36: a bar evaluated while pending_orders is non-empty only gets its value
\* snapshot: no order is submitted and last_rebalance_date, trailing_stops,
\* the trade and rebalance histories and the ledger are unchanged.
C36_GateOnlySnapshots ==
  [][pc = "next" /\ pending_orders # <<>>
     => /\ portfolio_values' =
             Append(portfolio_values, [date |-> date, value |-> getvalue, cash |-> getcash])
        /\ pending_orders' = pending_orders
        /\ UNCHANGED <<last_rebalance_date, trailing_stops, current_positions, trade_history,
                       rebalance_history, cash, position>>]_vars

\* a gated bar on which an open gate would have run the scheduler and bought:
\* the last rebalance is a day old and nothing is held
C36_Witness ==
  /\ pc = "feed"
  /\ pending_orders # <<>> /\ pending_orders[1].date < date
  /\ Len(portfolio_values) = 1
  /\ position["A"].size = 0
  /\ should_rebalance(date)
  /\ rebalance_history = <<>>

C37_Waiting == pc = "feed" /\ pending_orders # <<>> /\ bar < feed.bars

C37_GateOpen == pc = "next" /\ pending_orders = <<>>

\* C37: the broker notifying a terminal status for every order it was given,
\* every order in pending_orders is eventually removed: while bars remain, a
\* non-empty pending_orders leads to a bar that is evaluated with the list
\* empty, on which the risk check and the scheduler run again.
C37_PendingEventuallyCleared == C37_Waiting ~> C37_GateOpen

\* an order that ended in Margin has left pending_orders and the next bar was
\* evaluated
C37_Witness ==
  /\ pc = "feed"
  /\ failed # <<>>
  /\ failed[Len(failed)].date = date
  /\ \A i \in DOMAIN pending_orders : pending_orders[i].date = date
  /\ Len(portfolio_values) = bar

C38_ClosingSell(o, targets) ==
  o.origin = "rebalance" /\ o.action = "sell" /\ ~InTargets(targets, o.symbol)

C38_Buy(o) == o.origin = "rebalance" /\ o.action = "buy"

\* C38: of the orders one rebalance submits, every sell of a whole position
\* whose symbol is not among the target weights comes before every buy.
C38_ClosingSellsBeforeBuys ==
  [][pc = "next" =>
       \A i, j \in DOMAIN pending_orders' :
         (C38_Buy(pending_orders'[i]) /\ C38_ClosingSell(pending_orders'[j], current_positions'))
           => j < i]_vars

\* a rebalance that has just dropped a holding and bought another symbol
C38_Witness ==
  /\ pc = "feed"
  /\ last_rebalance_date = <<date>>
  /\ \E i, j \in DOMAIN pending_orders :
       /\ C38_Buy(pending_orders[i])
       /\ C38_ClosingSell(pending_orders[j], current_positions)
       /\ pending_orders[j].size = -position[pending_orders[j].symbol].size
       /\ pending_orders[i].date = date /\ pending_orders[j].date = date

\* C39: every symbol of the final_positions reported by stop() is held at the
\* end of the run.
C39_FinalPositionsAreHoldings ==
  results # <<>> =>
    \A i \in DOMAIN results[1].final_positions.assets :
      position[results[1].final_positions.assets[i]].size > 0

\* the row on which the open long position was entered
C40_EntryRow ==
  CHOOSE k \in 2..(macross.i - 1) :
    /\ macross.data[k].position = <<1>>
    /\ \A j \in (k + 1)..(macross.i - 1) : macross.data[j].position # <<1>>

\* the stop-loss level fixed at entry: entry close minus the entry bar's ATR
C40_StopLevel == macross.data[C40_EntryRow].close - macross.data[C40_EntryRow].ATR

\* C40: while a long position is open, a row whose close is at or below the
\* stop-loss level fixed at entry gets signal -1 and closes the position on that
\* row (current_position = 0, position_size = 0), however many rows after entry.
C40_StopLossClosesPosition ==
  [][(/\ pc = "loop"
      /\ macross.i <= MaxRows
      /\ macross.current_position = 1
      /\ macross.data[macross.i].close <= C40_StopLevel)
       => (/\ macross'.data[macross.i].signal = -1
           /\ macross'.current_position = 0
           /\ macross'.data[macross.i].position_size.num = 0)]_vars

====
